---- MODULE Spec2Model ----
(***************************************************************************)
(* NEGradient-GenePriority: the evaluation metrics aggregation             *)
(* (evaluation/evaluation.py), the side information loader                 *)
(* (preprocessing/side_information_loader.py) and the report tables        *)
(* (postprocessing/dataframes.py).                                         *)
(*                                                                         *)
(* Numbers.  A float is modelled exactly, as <<n, d, r>>: the r-th root    *)
(* (r = 1 or 2) of the fraction n/d in lowest terms, d > 0.  Arithmetic    *)
(* is done on fractions (r = 1); the only root taken is numpy's std.       *)
(***************************************************************************)
EXTENDS Integers, Sequences, FiniteSets, TLC

VARIABLES
    pc,                    \* <<the function called, the position in it>>
    ret,                   \* its return value, or the exception it raised
    results,               \* Evaluation.results
    alphas,                \* Evaluation.alphas
    auc_loss,              \* compute_avg_auc_loss / generate_auc_loss_table
    scores,                \* compute_bedroc_scores: rows built so far
    fpr,                   \* compute_roc_curve: per-fold FPR arrays
    tpr,                   \* compute_roc_curve: per-fold TPR arrays
    nb_th,                 \* compute_roc_curve: smallest threshold count
    dataframe,             \* to_coo: the table
    side_info_dataframes,  \* __call__: the list of tables
    rows,                  \* to_coo / __call__: the rows argument
    side_information,      \* __call__: the CSR blocks built so far
    bedroc,                \* generate_bedroc_table: the score array
    model_names,           \* generate_*_table: the row labels
    alpha_map,             \* generate_bedroc_table: the alpha labels
    passed                 \* history: side_info_dataframes as the caller passed it

vars == <<pc, ret, results, alphas, auc_loss, scores, fpr, tpr, nb_th,
          dataframe, side_info_dataframes, rows, side_information,
          bedroc, model_names, alpha_map, passed>>

evalVars == <<results, alphas, auc_loss, scores, fpr, tpr, nb_th>>
loaderVars == <<dataframe, side_info_dataframes, rows, side_information>>
tableVars == <<bedroc, model_names, alpha_map>>

None == "None"
ValueError == "ValueError"

\* What a call yields: a value returned or an exception raised
Return(v) == [raised |-> None, value |-> v]
Raise(e) == [raised |-> e, value |-> None]
NotReturned == Return(None)

\* The call of function f has ended / has returned a value
Done(f) == pc = <<f, "done">>
Returned(f) == Done(f) /\ ret.raised = None
Raised(f) == Done(f) /\ ret.raised # None

-----------------------------------------------------------------------------
(* Exact arithmetic standing for numpy's float arithmetic.                 *)

Abs(x) == IF x < 0 THEN -x ELSE x

Min(a, b) == IF a <= b THEN a ELSE b

RECURSIVE Gcd(_, _)
Gcd(a, b) == IF b = 0 THEN a ELSE Gcd(b, a % b)

Lcm(a, b) == (a \div Gcd(a, b)) * b

\* The fraction n/d (d # 0) in lowest terms, its denominator positive
Rat(n, d) ==
    LET g == Gcd(Abs(n), Abs(d))
    IN  IF d < 0 THEN <<(-n) \div g, (-d) \div g, 1>>
        ELSE <<n \div g, d \div g, 1>>

Whole(k) == <<k, 1, 1>>

RAdd(x, y) ==
    LET l == Lcm(x[2], y[2])
    IN  Rat(x[1] * (l \div x[2]) + y[1] * (l \div y[2]), l)

RSub(x, y) == RAdd(x, <<-y[1], y[2], 1>>)

RMul(x, y) ==
    LET g == Gcd(Abs(x[1]), y[2])
        h == Gcd(Abs(y[1]), x[2])
    IN  Rat((x[1] \div g) * (y[1] \div h), (x[2] \div h) * (y[2] \div g))

RDiv(x, y) ==
    RMul(x, IF y[1] < 0 THEN <<-y[2], -y[1], 1>> ELSE <<y[2], y[1], 1>>)

RDivInt(x, k) == Rat(x[1], x[2] * k)

RLe(x, y) == x[1] * y[2] <= y[1] * x[2]

RECURSIVE RSum(_)
RSum(xs) == IF xs = <<>> THEN Whole(0) ELSE RAdd(xs[1], RSum(Tail(xs)))

\* numpy.sqrt of a fraction, kept as its radicand; a root that is itself a
\* fraction is not reduced to it, except 0.
Sqrt(x) == IF x[1] = 0 THEN x ELSE <<x[1], x[2], 2>>

\* numpy.mean of a one-dimensional array
NpMean(xs) == RDivInt(RSum(xs), Len(xs))

\* numpy.std of a one-dimensional array: sqrt(mean(abs(x - x.mean())**2))
NpStd(xs) ==
    LET m == NpMean(xs)
        dev == [i \in 1..Len(xs) |-> RSub(xs[i], m)]
    IN  Sqrt(NpMean([i \in 1..Len(xs) |-> RMul(dev[i], dev[i])]))

-----------------------------------------------------------------------------
(* pandas and the f"{x:.2e}" format of the report tables.                  *)

RECURSIVE Pow10(_)
Pow10(k) == IF k = 0 THEN 1 ELSE 10 * Pow10(k - 1)

\* The decimal exponents a table cell can take: cells are means and standard
\* deviations of scores in [0, 1].
Exponents == {-2, -1, 0}

\* 10^(r*e) <= n/d, for e <= 0
AtLeastPow10(x, e) == x[2] <= x[1] * Pow10(x[3] * (-e))

\* The exponent of x > 0: 10^e <= x < 10^(e+1)
Exponent(x) ==
    CHOOSE e \in Exponents :
        /\ AtLeastPow10(x, e)
        /\ e < 0 => ~AtLeastPow10(x, e + 1)

\* The three significant digits of x > 0 with exponent e, half rounded up:
\* the m with (2m-1)/2 <= x * 10^(2-e) < (2m+1)/2.
Mantissa(x, e) ==
    LET r == x[3]
        p == Pow10(r * (2 - e))
        Pw(b) == IF r = 1 THEN b ELSE b * b
        c == Pw(2)
    IN  CHOOSE m \in 100..1000 :
            /\ Pw(2 * m - 1) * x[2] <= c * x[1] * p
            /\ c * x[1] * p < Pw(2 * m + 1) * x[2]

\* f"{x:.2e}": <<digits, exponent>>, "d.dde+xx"
Fmt2e(x) ==
    IF x[1] = 0 THEN <<0, 0>>
    ELSE LET e == Exponent(x)
             m == Mantissa(x, e)
         IN  IF m = 1000 THEN <<100, e + 1>> ELSE <<m, e>>

\* pd.DataFrame(data, columns=..., index=...): the shapes must agree
PdDataFrame(data, columns, index) ==
    IF \/ Len(data) # Len(index)
       \/ \E i \in 1..Len(data) : Len(data[i]) # Len(columns)
    THEN Raise(ValueError)
    ELSE Return([index |-> index, columns |-> columns, values |-> data])

\* DataFrame.map(lambda x: f"{x:.2e}")
DfMapFmt(df) ==
    [df EXCEPT !.values =
        [i \in 1..Len(df.values) |->
            [j \in 1..Len(df.values[i]) |-> Fmt2e(df.values[i][j])]]]

-----------------------------------------------------------------------------
(* postprocessing/dataframes.py                                            *)

avg_auc_loss_name == "Averaged 1-AUC error"
std_auc_loss_name == "Std 1-AUC error"
avg_bedroc_score_name == "Averaged BEDROC score"
std_bedroc_score_name == "Std BEDROC score"

\* bedroc.shape
Shape(a) == <<Len(a), Len(a[1]), Len(a[1][1])>>

\* bedroc.mean(axis=1) and bedroc.std(axis=1): shape (alphas, models)
MeanAxis1(a) ==
    [k \in 1..Shape(a)[1] |-> [m \in 1..Shape(a)[3] |->
        NpMean([d \in 1..Shape(a)[2] |-> a[k][d][m]])]]

StdAxis1(a) ==
    [k \in 1..Shape(a)[1] |-> [m \in 1..Shape(a)[3] |->
        NpStd([d \in 1..Shape(a)[2] |-> a[k][d][m]])]]

\* np.hstack of two 2-D arrays: the rows are concatenated
HStack(x, y) == [k \in 1..Len(x) |-> x[k] \o y[k]]

\* 2-D array, flattened in row-major (C) order
RECURSIVE Flatten(_)
Flatten(x) == IF x = <<>> THEN <<>> ELSE x[1] \o Flatten(Tail(x))

\* x.reshape((-1, ncols))
Reshape(x, ncols) ==
    LET flat == Flatten(x)
    IN  [r \in 1..(Len(flat) \div ncols) |->
            SubSeq(flat, (r - 1) * ncols + 1, r * ncols)]

\* The (avg, std) name pairs for alpha_map.values(), flattened
ColumnNamesPaired(labels) ==
    Flatten([k \in 1..Len(labels) |->
        << <<avg_bedroc_score_name, labels[k]>>,
           <<std_bedroc_score_name, labels[k]>> >>])

\* A faulty variant: all the avg names, then all the std names
ColumnNamesGrouped(labels) ==
    [k \in 1..Len(labels) |-> <<avg_bedroc_score_name, labels[k]>>]
    \o [k \in 1..Len(labels) |-> <<std_bedroc_score_name, labels[k]>>]

ColumnNames(labels) == ColumnNamesPaired(labels)

generate_bedroc_table(b, names, amap) ==
    IF Len(amap) # Shape(b)[1] THEN Raise(ValueError)
    ELSE LET stacked == Reshape(HStack(MeanAxis1(b), StdAxis1(b)),
                                Len(amap) * 2)
             df == PdDataFrame(stacked, ColumnNames(amap), names)
         IN  IF df.raised # None THEN df ELSE Return(DfMapFmt(df.value))

AucColumns == <<avg_auc_loss_name, std_auc_loss_name>>

generate_auc_loss_table(a, names) ==
    LET df == PdDataFrame(a, AucColumns, names)
    IN  IF df.raised # None THEN df ELSE Return(DfMapFmt(df.value))

\* Bounds of the table inputs
MaxCells == 6
MaxDim == 3

\* BEDROC scores of one (alpha, disease, model) cell
BedrocValues == {Whole(0), Whole(1)}

\* (mean, std) entries of an AUC loss array
AucLossValues == {Whole(0), Rat(1, 4), Sqrt(Rat(1, 8))}

Shapes ==
    {s \in (1..MaxDim) \X (1..MaxCells) \X (1..MaxDim) :
        s[1] * s[2] * s[3] <= MaxCells}

Arrays3(s) == [1..s[1] -> [1..s[2] -> [1..s[3] -> BedrocValues]]]

Names(n) == [m \in 1..n |-> <<"model", m>>]

Labels(n) == [k \in 1..n |-> <<"top", k>>]

InitTable ==
    /\ results = None /\ alphas = None /\ scores = None
    /\ fpr = None /\ tpr = None /\ nb_th = None
    /\ dataframe = None /\ side_info_dataframes = None
    /\ rows = None /\ side_information = None /\ passed = None
    /\ ret = NotReturned
    /\ \/ /\ pc = <<"generate_bedroc_table", "start">>
          /\ \E s \in Shapes : bedroc \in Arrays3(s)
          /\ \E n \in 1..MaxDim : model_names = Names(n)
          /\ \E n \in 1..MaxDim : alpha_map = Labels(n)
          /\ auc_loss = None
       \/ /\ pc = <<"generate_auc_loss_table", "start">>
          /\ \E n \in 1..MaxDim : auc_loss \in [1..n -> [1..2 -> AucLossValues]]
          /\ \E n \in 1..MaxDim : model_names = Names(n)
          /\ bedroc = None
          /\ alpha_map = None

GenerateBedrocTable ==
    /\ pc = <<"generate_bedroc_table", "start">>
    /\ ret' = generate_bedroc_table(bedroc, model_names, alpha_map)
    /\ pc' = <<pc[1], "done">>
    /\ UNCHANGED <<evalVars, loaderVars, tableVars, passed>>

GenerateAucLossTable ==
    /\ pc = <<"generate_auc_loss_table", "start">>
    /\ ret' = generate_auc_loss_table(auc_loss, model_names)
    /\ pc' = <<pc[1], "done">>
    /\ UNCHANGED <<evalVars, loaderVars, tableVars, passed>>

NextTable == GenerateBedrocTable \/ GenerateAucLossTable

SpecTable == InitTable /\ [][NextTable]_vars

-----------------------------------------------------------------------------
(* preprocessing/side_information_loader.py                                *)
(*                                                                         *)
(* A DataFrame is [ncols, data]: its number of columns and its rows, each  *)
(* a tuple of ncols values.  A COO matrix is [shape, row, col, data], the  *)
(* stored entries in order; a CSR matrix is [shape, dense], its value at   *)
(* every position (row r, column c at dense[r + 1][c + 1]).                *)
(*                                                                         *)
(* Of process_side_information, the reading of the tables and its first    *)
(* call of the loader are modelled; its second call runs the same code on  *)
(* the disease tables.                                                     *)

IndexError == "IndexError"

RECURSIVE MaxOf(_)
MaxOf(xs) ==
    IF Len(xs) = 1 THEN xs[1]
    ELSE LET m == MaxOf(Tail(xs)) IN IF xs[1] >= m THEN xs[1] ELSE m

\* mat[:, j] of dataframe.to_numpy(), j counted from 0
Column(df, j) == [i \in 1..Len(df.data) |-> df.data[i][j + 1]]

\* scipy.sparse.coo_matrix((data, (row, col)), shape=shape): the entries are
\* stored as given; an index outside the shape is refused
coo_matrix(data, row, col, shape) ==
    IF \E i \in 1..Len(row) :
           \/ row[i] < 0 \/ row[i] >= shape[1]
           \/ col[i] < 0 \/ col[i] >= shape[2]
    THEN Raise(ValueError)
    ELSE Return([shape |-> shape, row |-> row, col |-> col, data |-> data])

\* A faulty variant: the row and column indices exchanged
to_coo_transposed(df, n) ==
    IF df.ncols < 3 THEN Raise(IndexError)
    ELSE IF df.data = <<>> THEN Raise(ValueError)
    ELSE coo_matrix(Column(df, 2), Column(df, 1), Column(df, 0),
                    <<n + 1, MaxOf(Column(df, 1)) + 1>>)

\* SideInformationLoader.to_coo(dataframe, rows); max() of no rows raises
to_coo(df, n) ==
    IF df.ncols < 3 THEN Raise(IndexError)
    ELSE IF df.data = <<>> THEN Raise(ValueError)
    ELSE coo_matrix(Column(df, 2), Column(df, 0), Column(df, 1),
                    <<n + 1, MaxOf(Column(df, 1)) + 1>>)

\* A faulty variant: np.zeros for np.ones
add_implicit_zeros(df) ==
    [ncols |-> df.ncols + 1,
     data |-> [i \in 1..Len(df.data) |-> Append(df.data[i], 0)]]

\* SideInformationLoader.add_implicit_ones(dataframe)
add_implicit_ones(df) ==
    [ncols |-> df.ncols + 1,
     data |-> [i \in 1..Len(df.data) |-> Append(df.data[i], 1)]]

RECURSIVE SumWhere(_, _, _, _)
SumWhere(coo, r, c, i) ==
    IF i = 0 THEN 0
    ELSE SumWhere(coo, r, c, i - 1)
         + (IF coo.row[i] = r /\ coo.col[i] = c THEN coo.data[i] ELSE 0)

\* coo_matrix.tocsr(): entries at the same position are summed
tocsr(coo) ==
    [shape |-> coo.shape,
     dense |-> [r \in 1..coo.shape[1] |-> [c \in 1..coo.shape[2] |->
                   SumWhere(coo, r - 1, c - 1, Len(coo.data))]]]

RECURSIVE ConcatRows(_, _)
ConcatRows(blocks, r) ==
    IF blocks = <<>> THEN <<>>
    ELSE blocks[1].dense[r] \o ConcatRows(Tail(blocks), r)

\* scipy.sparse.hstack(blocks) of blocks with the same number of rows
hstack(blocks) ==
    LET nr == blocks[1].shape[1]
        dense == [r \in 1..nr |-> ConcatRows(blocks, r)]
    IN  [shape |-> <<nr, IF nr = 0 THEN 0 ELSE Len(dense[1])>>,
         dense |-> dense]

\* A faulty variant: only a width above 3 is refused
WrongWidthOver(ncols) == ncols > 3

\* __call__: the width check, lines 129-132
WrongWidth(ncols) == ncols # 2 /\ ncols # 3

\* Bounds of the loader inputs
MaxEntries == 2
MaxIdx == 1
MaxDfs == 2

\* Scores of a three-column table given to to_coo, and the score of the
\* three-column tables read from files
Scores == {2, 3}
FileScores == {2}

Table(n, d) == [ncols |-> n, data |-> d]

\* What pd.read_csv can yield within k rows: tables of two or three columns,
\* and tables of another width (whose content __call__ never reads)
TablesUpTo(k) ==
    UNION {{Table(2, d) : d \in [1..j -> (0..MaxIdx) \X (0..MaxIdx)]} \cup
           {Table(3, d) :
               d \in [1..j -> (0..MaxIdx) \X (0..MaxIdx) \X FileScores]}
           : j \in 0..k}
    \cup {Table(1, <<>>), Table(4, <<>>)}
    \cup (IF k > 0 THEN {Table(1, << <<0>> >>), Table(4, << <<0, 0, 2, 2>> >>)}
          ELSE {})

RECURSIVE TotalRows(_)
TotalRows(dfs) ==
    IF dfs = <<>> THEN 0 ELSE Len(dfs[1].data) + TotalRows(Tail(dfs))

\* Three-column tables given to to_coo directly; an index may be negative
CooTables ==
    UNION {{Table(3, d) :
               d \in [1..j -> (-1..MaxIdx) \X (-1..MaxIdx) \X Scores]}
           : j \in 0..MaxEntries}

\* The rows argument: the largest index of the tables, or one less
RowsArgs == {MaxIdx - 1, MaxIdx}

InitLoader ==
    /\ results = None /\ alphas = None /\ scores = None /\ auc_loss = None
    /\ fpr = None /\ tpr = None /\ nb_th = None
    /\ bedroc = None /\ model_names = None /\ alpha_map = None
    /\ ret = NotReturned
    /\ rows \in RowsArgs
    /\ side_info_dataframes = <<>>
    /\ passed = <<>>
    /\ side_information = <<>>
    /\ \/ /\ pc = <<"to_coo", "start">>
          /\ dataframe \in CooTables
       \/ /\ pc = <<"process_side_information", "read_csv">>
          /\ dataframe = Table(0, <<>>)

\* process_side_information: one pd.read_csv of the list comprehension that
\* builds the list of tables
ReadCsv ==
    /\ pc = <<"process_side_information", "read_csv">>
    /\ Len(side_info_dataframes) < MaxDfs
    /\ \E df \in TablesUpTo(MaxEntries - TotalRows(side_info_dataframes)) :
           side_info_dataframes' = Append(side_info_dataframes, df)
    /\ UNCHANGED <<pc, ret, evalVars, tableVars, dataframe, rows,
                   side_information, passed>>

\* process_side_information: self(gene_dataframes, self.nb_genes)
Call ==
    /\ pc = <<"process_side_information", "read_csv">>
    /\ side_info_dataframes # <<>>
    /\ pc' = <<"__call__", "loop">>
    /\ passed' = side_info_dataframes
    /\ UNCHANGED <<ret, evalVars, loaderVars, tableVars>>

\* to_coo called on its own
ToCoo ==
    /\ pc = <<"to_coo", "start">>
    /\ ret' = to_coo(dataframe, rows)
    /\ pc' = <<"to_coo", "done">>
    /\ UNCHANGED <<evalVars, loaderVars, tableVars, passed>>

\* __call__: one pass of the loop over side_info_dataframes. The table in
\* hand is the one after those already converted. add_implicit_ones writes
\* to the caller's table.
CallLoop ==
    /\ pc = <<"__call__", "loop">>
    /\ Len(side_information) < Len(side_info_dataframes)
    /\ LET i == Len(side_information) + 1
           df == side_info_dataframes[i]
           df3 == IF df.ncols = 2 THEN add_implicit_ones(df) ELSE df
           coo == to_coo(df3, rows)
       IN  /\ side_info_dataframes' = [side_info_dataframes EXCEPT ![i] = df3]
           /\ IF df.ncols # 2 /\ WrongWidth(df.ncols)
              THEN /\ ret' = Raise(ValueError)
                   /\ pc' = <<"__call__", "done">>
                   /\ UNCHANGED side_information
              ELSE IF coo.raised # None
              THEN /\ ret' = coo
                   /\ pc' = <<"__call__", "done">>
                   /\ UNCHANGED side_information
              ELSE /\ side_information' =
                        Append(side_information, tocsr(coo.value))
                   /\ UNCHANGED <<pc, ret>>
    /\ UNCHANGED <<evalVars, tableVars, dataframe, rows, passed>>

\* __call__: return sp.hstack(side_information)
CallReturn ==
    /\ pc = <<"__call__", "loop">>
    /\ Len(side_information) = Len(side_info_dataframes)
    /\ ret' = Return(hstack(side_information))
    /\ pc' = <<"__call__", "done">>
    /\ UNCHANGED <<evalVars, loaderVars, tableVars, passed>>

NextLoader == ToCoo \/ ReadCsv \/ Call \/ CallLoop \/ CallReturn

SpecLoader == InitLoader /\ [][NextLoader]_vars

-----------------------------------------------------------------------------
(* evaluation/evaluation.py                                                *)
(*                                                                         *)
(* A Results unpacks to (y_true, y_pred): the labels (0 or 1) and the      *)
(* predicted scores of one fold, of the same length.  Every fold holds a   *)
(* positive and a negative label: the ROC-AUC and the BEDROC score of a    *)
(* fold of one class are not defined.                                      *)

RECURSIVE SortDesc(_)
SortDesc(S) ==
    IF S = {} THEN <<>>
    ELSE LET m == CHOOSE v \in S : \A w \in S : w <= v
         IN  <<m>> \o SortDesc(S \ {m})

Range(f) == {f[i] : i \in DOMAIN f}

\* sklearn _binary_clf_curve: one point per distinct score, from the highest;
\* the counts of positives and of negatives scored at or above it
Thresholds(y_score) == SortDesc(Range(y_score))

CountAtOrAbove(y_true, y_score, label, t) ==
    Cardinality({i \in DOMAIN y_true : y_true[i] = label /\ y_score[i] >= t})

\* sklearn roc_curve(..., drop_intermediate=True): the indices kept, those of
\* the first and last points and of every point where the second difference
\* of fps or of tps is not zero
OptimalIdxs(fps, tps) ==
    IF Len(fps) <= 2 THEN [i \in 1..Len(fps) |-> i]
    ELSE SelectSeq([i \in 1..Len(fps) |-> i],
            LAMBDA i :
                \/ i = 1
                \/ i = Len(fps)
                \/ fps[i + 1] - 2 * fps[i] + fps[i - 1] # 0
                \/ tps[i + 1] - 2 * tps[i] + tps[i - 1] # 0)

\* sklearn.metrics.roc_curve(y_true, y_score, pos_label=1,
\* drop_intermediate=True), for labels of both classes
roc_curve(y_true, y_score) ==
    LET th == Thresholds(y_score)
        tps == [k \in 1..Len(th) |-> CountAtOrAbove(y_true, y_score, 1, th[k])]
        fps == [k \in 1..Len(th) |-> CountAtOrAbove(y_true, y_score, 0, th[k])]
        keep == OptimalIdxs(fps, tps)
        tps0 == <<0>> \o [k \in 1..Len(keep) |-> tps[keep[k]]]
        fps0 == <<0>> \o [k \in 1..Len(keep) |-> fps[keep[k]]]
    IN  [fpr |-> [k \in 1..Len(fps0) |-> Rat(fps0[k], fps0[Len(fps0)])],
         tpr |-> [k \in 1..Len(tps0) |-> Rat(tps0[k], tps0[Len(tps0)])],
         thresholds |-> <<"inf">> \o [k \in 1..Len(keep) |-> th[keep[k]]]]

\* sklearn.metrics.auc: the trapezoidal rule
RECURSIVE Trapezoid(_, _, _)
Trapezoid(x, y, k) ==
    IF k <= 1 THEN Whole(0)
    ELSE RAdd(Trapezoid(x, y, k - 1),
              RDivInt(RMul(RSub(x[k], x[k - 1]), RAdd(y[k], y[k - 1])), 2))

\* sklearn.metrics.roc_auc_score(y_true, y_score)
roc_auc_score(y_true, y_score) ==
    LET c == roc_curve(y_true, y_score)
    IN  Trapezoid(c.fpr, c.tpr, Len(c.fpr))

\* A faulty variant: the AUC itself, not 1 - AUC
AucLossNotComplemented(result_per_fold) ==
    roc_auc_score(result_per_fold[1], result_per_fold[2])

\* compute_avg_auc_loss, line 76
AucLoss(result_per_fold) ==
    RSub(Whole(1), roc_auc_score(result_per_fold[1], result_per_fold[2]))

\* A faulty variant: the last fold's count, not the smallest
NbThLast(nb, threshold) == Len(threshold)

\* np.inf, the first value of nb_th
Inf == -1

\* compute_roc_curve, line 99
NbTh(nb, threshold) ==
    IF nb = Inf THEN Len(threshold) ELSE Min(nb, Len(threshold))

\* elem[:n]
Slice(elem, n) == SubSeq(elem, 1, Min(n, Len(elem)))

\* np.mean(arrays, axis=0) of one-dimensional arrays, which must have one
\* length
MeanAxis0(arrays) ==
    IF \E f \in 1..Len(arrays) : Len(arrays[f]) # Len(arrays[1])
    THEN Raise(ValueError)
    ELSE Return([i \in 1..Len(arrays[1]) |->
                    NpMean([f \in 1..Len(arrays) |-> arrays[f][i]])])

\* compute_roc_curve, lines 100-102
RocCurveResult(fprs, tprs, n) ==
    LET f == MeanAxis0([k \in 1..Len(fprs) |-> Slice(fprs[k], n)])
        t == MeanAxis0([k \in 1..Len(tprs) |-> Slice(tprs[k], n)])
    IN  IF f.raised # None THEN f
        ELSE IF t.raised # None THEN t
        ELSE Return(<<f.value, t.value>>)

\* Bounds of the evaluation inputs
MaxSamples == 3
MaxTotal == 5
MaxScore == 2

\* The alphas are e^alpha = base^AlphaUnit for a base in 2..3, so that
\* e^(alpha * k / N) is a power of the base for every fold length N
AlphaLists == {<<2>>, <<3, 2>>}

RECURSIVE LcmUpTo(_)
LcmUpTo(n) == IF n <= 1 THEN 1 ELSE Lcm(n, LcmUpTo(n - 1))

AlphaUnit == LcmUpTo(MaxSamples)

RECURSIVE Pow(_, _)
Pow(b, k) == IF k = 0 THEN 1 ELSE b * Pow(b, k - 1)

\* e^(alpha * k / AlphaUnit)
Exp(b, k) == IF k >= 0 THEN Whole(Pow(b, k)) ELSE Rat(1, Pow(b, -k))

Sinh(b, k) == RDivInt(RSub(Exp(b, k), Exp(b, -k)), 2)

Cosh(b, k) == RDivInt(RAdd(Exp(b, k), Exp(b, -k)), 2)

\* np.argsort(-y_pred): the 1-based rank of sample i, ties in index order
Rank(y_pred, i) ==
    1 + Cardinality({j \in DOMAIN y_pred :
                        \/ y_pred[j] > y_pred[i]
                        \/ y_pred[j] = y_pred[i] /\ j < i})

\* bedroc_score(y_true, y_pred, decreasing=True, alpha): Truchon and Bayly's
\* formula, RIE * factor + constant with RIE = s / rand_sum
bedroc_score(y_true, y_pred, b) ==
    LET big_n == Len(y_true)
        actives == {i \in DOMAIN y_true : y_true[i] = 1}
        n == Cardinality(actives)
        u == AlphaUnit \div big_n
        ranks == SortDesc({Rank(y_pred, i) : i \in actives})
        s == RSum([k \in 1..n |-> Exp(b, -(u * ranks[k]))])
        r_a == Rat(n, big_n)
        rand_sum == RDiv(RMul(r_a, RSub(Whole(1), Exp(b, -AlphaUnit))),
                         RSub(Exp(b, u), Whole(1)))
        fac == RDiv(RMul(r_a, Sinh(b, AlphaUnit \div 2)),
                    RSub(Cosh(b, AlphaUnit \div 2),
                         Cosh(b, (AlphaUnit \div 2) - u * n)))
        cte == RDiv(Whole(1), RSub(Whole(1), Exp(b, u * (big_n - n))))
    IN  RAdd(RMul(RDiv(s, rand_sum), fac), cte)

\* A faulty variant: the first alpha for every column
BedrocRowFirstAlpha(result_per_fold, as) ==
    [j \in 1..Len(as) |->
        bedroc_score(result_per_fold[1], result_per_fold[2], as[1])]

\* compute_bedroc_scores, lines 58-61: the scores of one fold
BedrocRow(result_per_fold, as) ==
    [j \in 1..Len(as) |->
        bedroc_score(result_per_fold[1], result_per_fold[2], as[j])]

RECURSIVE TotalSamples(_)
TotalSamples(rs) ==
    IF rs = <<>> THEN 0 ELSE Len(rs[1][1]) + TotalSamples(Tail(rs))

\* The Results of one fold of N samples: labels of both classes
Folds(N) ==
    {<<y_true, y_pred>> :
        y_true \in {t \in [1..N -> {0, 1}] : Range(t) = {0, 1}},
        y_pred \in [1..N -> 1..MaxScore]}

InitEval ==
    /\ pc = <<"Evaluation", "results">>
    /\ ret = NotReturned
    /\ results = <<>>
    /\ alphas = <<>>
    /\ auc_loss = <<>> /\ scores = <<>> /\ fpr = <<>> /\ tpr = <<>>
    /\ nb_th = Inf
    /\ dataframe = None /\ side_info_dataframes = None
    /\ rows = None /\ side_information = None /\ passed = None
    /\ bedroc = None /\ model_names = None /\ alpha_map = None

\* The caller collects the Results of one more fold
AppendResult ==
    /\ pc = <<"Evaluation", "results">>
    /\ \E N \in 2..Min(MaxSamples, MaxTotal - TotalSamples(results)) :
       \E r \in Folds(N) :
           results' = Append(results, r)
    /\ UNCHANGED <<pc, ret, alphas, auc_loss, scores, fpr, tpr, nb_th,
                   loaderVars, tableVars, passed>>

\* Evaluation(results).compute_avg_auc_loss()
CallAvgAucLoss ==
    /\ pc = <<"Evaluation", "results">>
    /\ results # <<>>
    /\ pc' = <<"compute_avg_auc_loss", "loop">>
    /\ UNCHANGED <<ret, evalVars, loaderVars, tableVars, passed>>

\* compute_avg_auc_loss: one item of the list comprehension
AvgAucLossFold ==
    /\ pc = <<"compute_avg_auc_loss", "loop">>
    /\ Len(auc_loss) < Len(results)
    /\ auc_loss' = Append(auc_loss, AucLoss(results[Len(auc_loss) + 1]))
    /\ UNCHANGED <<pc, ret, results, alphas, scores, fpr, tpr, nb_th,
                   loaderVars, tableVars, passed>>

\* compute_avg_auc_loss: return np.mean(auc_loss), np.std(auc_loss)
AvgAucLossReturn ==
    /\ pc = <<"compute_avg_auc_loss", "loop">>
    /\ Len(auc_loss) = Len(results)
    /\ ret' = Return(<<NpMean(auc_loss), NpStd(auc_loss)>>)
    /\ pc' = <<"compute_avg_auc_loss", "done">>
    /\ UNCHANGED <<evalVars, loaderVars, tableVars, passed>>

\* Evaluation(results).compute_roc_curve()
CallRocCurve ==
    /\ pc = <<"Evaluation", "results">>
    /\ results # <<>>
    /\ pc' = <<"compute_roc_curve", "loop">>
    /\ UNCHANGED <<ret, evalVars, loaderVars, tableVars, passed>>

\* compute_roc_curve: one pass of the loop over the folds
RocCurveFold ==
    /\ pc = <<"compute_roc_curve", "loop">>
    /\ Len(fpr) < Len(results)
    /\ LET result_per_fold == results[Len(fpr) + 1]
           c == roc_curve(result_per_fold[1], result_per_fold[2])
       IN  /\ fpr' = Append(fpr, c.fpr)
           /\ tpr' = Append(tpr, c.tpr)
           /\ nb_th' = NbTh(nb_th, c.thresholds)
    /\ UNCHANGED <<pc, ret, results, alphas, auc_loss, scores,
                   loaderVars, tableVars, passed>>

\* compute_roc_curve: the means of the truncated arrays are returned
RocCurveReturn ==
    /\ pc = <<"compute_roc_curve", "loop">>
    /\ Len(fpr) = Len(results)
    /\ ret' = RocCurveResult(fpr, tpr, nb_th)
    /\ pc' = <<"compute_roc_curve", "done">>
    /\ UNCHANGED <<evalVars, loaderVars, tableVars, passed>>

\* Evaluation(results).compute_bedroc_scores(), with the class's alphas set
CallBedrocScores ==
    /\ pc = <<"Evaluation", "results">>
    /\ results # <<>>
    /\ alphas' \in AlphaLists
    /\ pc' = <<"compute_bedroc_scores", "loop">>
    /\ UNCHANGED <<ret, results, auc_loss, scores, fpr, tpr, nb_th,
                   loaderVars, tableVars, passed>>

\* compute_bedroc_scores: the row of one fold
BedrocScoresFold ==
    /\ pc = <<"compute_bedroc_scores", "loop">>
    /\ Len(scores) < Len(results)
    /\ scores' = Append(scores, BedrocRow(results[Len(scores) + 1], alphas))
    /\ UNCHANGED <<pc, ret, results, alphas, auc_loss, fpr, tpr, nb_th,
                   loaderVars, tableVars, passed>>

\* compute_bedroc_scores: return scores
BedrocScoresReturn ==
    /\ pc = <<"compute_bedroc_scores", "loop">>
    /\ Len(scores) = Len(results)
    /\ ret' = Return(scores)
    /\ pc' = <<"compute_bedroc_scores", "done">>
    /\ UNCHANGED <<evalVars, loaderVars, tableVars, passed>>

NextEval ==
    \/ AppendResult
    \/ CallAvgAucLoss \/ AvgAucLossFold \/ AvgAucLossReturn
    \/ CallRocCurve \/ RocCurveFold \/ RocCurveReturn
    \/ CallBedrocScores \/ BedrocScoresFold \/ BedrocScoresReturn

SpecEval == InitEval /\ [][NextEval]_vars

-----------------------------------------------------------------------------
(* Properties of the evaluation metrics.                                   *)

\* The ROC-AUC of a fold as the share of (positive, negative) pairs ranked
\* in the right order, a tie counting for half a pair
PairAuc(result_per_fold) ==
    LET y_true == result_per_fold[1]
        y_pred == result_per_fold[2]
        pos == {i \in DOMAIN y_true : y_true[i] = 1}
        neg == {i \in DOMAIN y_true : y_true[i] = 0}
        won == Cardinality({q \in pos \X neg : y_pred[q[1]] > y_pred[q[2]]})
        tied == Cardinality({q \in pos \X neg : y_pred[q[1]] = y_pred[q[2]]})
    IN  Rat(2 * won + tied, 2 * Cardinality(pos) * Cardinality(neg))

\* C1: compute_avg_auc_loss returns the arithmetic mean over all folds of
\* (1 - ROC-AUC of the fold), and the standard deviation of those values:
\* the root of the mean of their squares less the square of their mean.
C1_MeanAndStdOfAucLoss ==
    Done("compute_avg_auc_loss") =>
        LET n == Len(results)
            loss == [i \in 1..n |-> RSub(Whole(1), PairAuc(results[i]))]
            sq == [i \in 1..n |-> RMul(loss[i], loss[i])]
            mean == RDivInt(RSum(loss), n)
        IN  /\ ret.raised = None
            /\ RMul(ret.value[1], Whole(n)) = RSum(loss)
            /\ ret.value[2] = Sqrt(RSub(RDivInt(RSum(sq), n), RMul(mean, mean)))

\* The mean and a non-zero deviation were returned for two folds whose AUC
\* losses differ, one of them neither 0 nor 1
C1_Witness ==
    /\ Returned("compute_avg_auc_loss")
    /\ Len(results) = 2
    /\ auc_loss[1] # auc_loss[2]
    /\ auc_loss[1] = Rat(1, 4)
    /\ ret.value[2][3] = 2

\* The BEDROC score in closed form: with B = e^(alpha/N), n actives at the
\* ranks r_i among N, ((B - 1) * sum B^(N - r_i) - (B^n - 1))
\* / ((B^n - 1) * (B^(N - n) - 1)).
ClosedBedroc(result_per_fold, b) ==
    LET y_true == result_per_fold[1]
        N == Len(y_true)
        actives == {i \in DOMAIN y_true : y_true[i] = 1}
        n == Cardinality(actives)
        B == Pow(b, AlphaUnit \div N)
        ranks == SortDesc({Rank(result_per_fold[2], i) : i \in actives})
        sum == RSum([k \in 1..n |-> Whole(Pow(B, N - ranks[k]))])
    IN  Rat((B - 1) * sum[1] - (Pow(B, n) - 1),
            (Pow(B, n) - 1) * (Pow(B, N - n) - 1))

RECURSIVE MinLen(_)
MinLen(xs) ==
    IF Len(xs) = 1 THEN Len(xs[1]) ELSE Min(Len(xs[1]), MinLen(Tail(xs)))

\* C9: compute_roc_curve returns FPR and TPR arrays of one length L, the
\* smallest number of ROC thresholds of a fold; element i of each is the mean
\* over all folds of the fold's i-th FPR (TPR) value.
C9_RocCurveMeanOfTruncated ==
    Done("compute_roc_curve") =>
        LET n == Len(results)
            curve == [f \in 1..n |-> roc_curve(results[f][1], results[f][2])]
            L == MinLen([f \in 1..n |-> curve[f].thresholds])
        IN  /\ ret.raised = None
            /\ Len(ret.value[1]) = L
            /\ Len(ret.value[2]) = L
            /\ \A i \in 1..L :
                   /\ RMul(ret.value[1][i], Whole(n))
                          = RSum([f \in 1..n |-> curve[f].fpr[i]])
                   /\ RMul(ret.value[2][i], Whole(n))
                          = RSum([f \in 1..n |-> curve[f].tpr[i]])

\* The curve of two folds was returned, the first with two thresholds and
\* the second with three, cut to two points
C9_Witness ==
    /\ Returned("compute_roc_curve")
    /\ Len(results) = 2
    /\ Len(fpr[1]) = 2
    /\ Len(fpr[2]) = 3
    /\ Len(ret.value[1]) = 2
    /\ nb_th = 2

-----------------------------------------------------------------------------
(* Properties of the side information loader.                              *)

\* The i-th stored entry of a COO matrix is the i-th row of the table
SameEntries(coo, df) ==
    /\ Len(coo.data) = Len(df.data)
    /\ Len(coo.row) = Len(df.data)
    /\ Len(coo.col) = Len(df.data)
    /\ \A i \in 1..Len(df.data) :
           /\ coo.row[i] = df.data[i][1]
           /\ coo.col[i] = df.data[i][2]
           /\ coo.data[i] = df.data[i][3]

\* C2 as stated: for any three-column table whose row indices are all
\* <= rows, to_coo returns a matrix with as many stored entries as the table
\* has rows, the i-th entry being the i-th table row.
C2_AnyTable ==
    (/\ Done("to_coo")
     /\ \A i \in 1..Len(dataframe.data) : dataframe.data[i][1] <= rows)
        => /\ ret.raised = None
           /\ SameEntries(ret.value, dataframe)

\* C2 amended: for any three-column table with at least one row, whose row
\* indices are within 0..rows and whose column indices are not negative,
\* to_coo returns a matrix with as many stored entries as the table has rows,
\* the i-th entry being the i-th table row, repeated positions included.
C2_NonEmptyTable ==
    (/\ Done("to_coo")
     /\ dataframe.data # <<>>
     /\ \A i \in 1..Len(dataframe.data) :
            /\ dataframe.data[i][1] \in 0..rows
            /\ dataframe.data[i][2] >= 0)
        => /\ ret.raised = None
           /\ SameEntries(ret.value, dataframe)

\* to_coo has returned for a table listing one position twice, with two scores
C2_Witness ==
    /\ Returned("to_coo")
    /\ Len(dataframe.data) = 2
    /\ dataframe.data[1][1] = dataframe.data[2][1]
    /\ dataframe.data[1][2] = dataframe.data[2][2]
    /\ dataframe.data[1][3] # dataframe.data[2][3]
    /\ Len(ret.value.data) = 2

\* The first table of the list as passed whose width is neither 2 nor 3
HasWrongWidth(dfs) == \E i \in 1..Len(dfs) : dfs[i].ncols \notin {2, 3}
FirstWrongWidth(dfs) ==
    CHOOSE i \in 1..Len(dfs) :
        /\ dfs[i].ncols \notin {2, 3}
        /\ \A j \in 1..(i - 1) : dfs[j].ncols \in {2, 3}

\* C6: when a table of the list has a number of columns other than 2 or 3,
\* __call__ raises ValueError and returns no matrix; it stops at that table
\* at the latest: no table at or after it is converted, and no table after
\* it is given a score column.
C6_WrongWidthRaises ==
    (Done("__call__") /\ HasWrongWidth(passed))
        => /\ ret.raised = ValueError
           /\ ret.value = None
           /\ Len(side_information) < FirstWrongWidth(passed)
           /\ \A j \in FirstWrongWidth(passed)..Len(passed) :
                  side_info_dataframes[j] = passed[j]

\* __call__ has raised at a four-column table that comes first, and the
\* two-column table after it has been left with its two columns
C6_Witness ==
    /\ Raised("__call__")
    /\ Len(passed) = 2
    /\ passed[1].ncols = 4
    /\ passed[2].ncols = 2
    /\ side_info_dataframes[2].ncols = 2
    /\ side_information = <<>>

\* C7: the matrix to_coo and __call__ return has exactly `rows` rows.
C7_RowsIsRowCount ==
    (Returned("to_coo") \/ Returned("__call__"))
        => ret.value.shape[1] = rows

\* Width of the block of columns of a table, and the column where it starts
BlockWidth(df) == MaxOf(Column(df, 1)) + 1

RECURSIVE BlockStart(_, _)
BlockStart(dfs, i) ==
    IF i = 1 THEN 0 ELSE BlockStart(dfs, i - 1) + BlockWidth(dfs[i - 1])

Listed(df, r, c) == {i \in 1..Len(df.data) : df.data[i] = <<r, c>>}

\* C8 as stated: in the matrix __call__ returns, within the block of a
\* two-column table, every listed position holds 1 and every other holds 0.
C8_ListedHoldOne ==
    Returned("__call__") =>
        \A i \in 1..Len(passed) : passed[i].ncols = 2 =>
            \A r \in 0..(ret.value.shape[1] - 1) :
            \A c \in 0..(BlockWidth(passed[i]) - 1) :
                ret.value.dense[r + 1][BlockStart(passed, i) + c + 1]
                    = IF Listed(passed[i], r, c) # {} THEN 1 ELSE 0

\* C8 amended: in the matrix __call__ returns, within the block of a
\* two-column table, every position holds the number of times the table
\* lists it: 1 for a position listed once, 0 for a position not listed.
C8_ListedHoldCount ==
    Returned("__call__") =>
        \A i \in 1..Len(passed) : passed[i].ncols = 2 =>
            \A r \in 0..(ret.value.shape[1] - 1) :
            \A c \in 0..(BlockWidth(passed[i]) - 1) :
                ret.value.dense[r + 1][BlockStart(passed, i) + c + 1]
                    = Cardinality(Listed(passed[i], r, c))

\* __call__ has returned a matrix whose second block is that of a two-column
\* table listing position (1, 1), which holds 1
C8_Witness ==
    /\ Returned("__call__")
    /\ Len(passed) = 2
    /\ passed[1].ncols = 3
    /\ passed[2] = Table(2, << <<1, 1>> >>)
    /\ ret.value.dense[2][BlockStart(passed, 2) + 2] = 1

-----------------------------------------------------------------------------
(* Properties of the report tables.                                        *)

\* The documented row and column layout of the BEDROC table: one row per
\* model, and for the k-th alpha label the pair of columns (avg, std).
DocumentedBedrocColumns(labels) ==
    [c \in 1..(2 * Len(labels)) |->
        IF c % 2 = 1 THEN <<avg_bedroc_score_name, labels[(c + 1) \div 2]>>
        ELSE <<std_bedroc_score_name, labels[c \div 2]>>]

HasShape(df, index, columns) ==
    /\ df.index = index
    /\ df.columns = columns
    /\ Len(df.values) = Len(index)
    /\ \A i \in 1..Len(df.values) : Len(df.values[i]) = Len(columns)

\* C4: generate_auc_loss_table on a (M, 2) array with M model names returns
\* M rows indexed by the model names and the two columns (average, std);
\* generate_bedroc_table on a (A, D, M) array with A labels and M model
\* names returns M rows indexed by the model names and the 2*A columns
\* avg(label_1), std(label_1), ..., avg(label_A), std(label_A).
C4_TableShapes ==
    /\ (Done("generate_auc_loss_table") /\ Len(model_names) = Len(auc_loss))
          => /\ ret.raised = None
             /\ HasShape(ret.value, model_names,
                         <<avg_auc_loss_name, std_auc_loss_name>>)
    /\ (/\ Done("generate_bedroc_table")
        /\ Len(alpha_map) = Shape(bedroc)[1]
        /\ Len(model_names) = Shape(bedroc)[3])
          => /\ ret.raised = None
             /\ HasShape(ret.value, model_names,
                         DocumentedBedrocColumns(alpha_map))

\* A BEDROC table was returned for two alphas and three models
C4_Witness ==
    /\ Returned("generate_bedroc_table")
    /\ Shape(bedroc)[1] = 2
    /\ Shape(bedroc)[3] = 3
    /\ Len(ret.value.columns) = 4

\* C3: in the table generate_bedroc_table returns, the cell of model m in
\* column avg(label_k) is the formatted mean over the diseases of
\* bedroc[k, :, m], and the cell in column std(label_k) is the formatted
\* standard deviation of the same scores.
C3_BedrocCells ==
    Returned("generate_bedroc_table") =>
        \A m \in 1..Shape(bedroc)[3] : \A k \in 1..Shape(bedroc)[1] :
            LET xs == [d \in 1..Shape(bedroc)[2] |-> bedroc[k][d][m]]
            IN  /\ ret.value.values[m][2 * k - 1] = Fmt2e(NpMean(xs))
                /\ ret.value.values[m][2 * k] = Fmt2e(NpStd(xs))

====
